---- MODULE Spec2Model ----
(***************************************************************************)
(* A model of app.py, the RAGAData Chat Streamlit application.  A          *)
(* Streamlit script is re-executed from top to bottom on every user        *)
(* interaction; the state that survives between runs is the widget state   *)
(* of the session.  Every action below is one interaction followed by the  *)
(* complete script run it triggers.                                        *)
(*                                                                         *)
(* Strings the program takes apart (file names, PDF text) are sequences of *)
(* one-character strings.  Strings the program only passes on are TLA+     *)
(* strings.                                                                *)
(***************************************************************************)
EXTENDS Integers, Sequences, FiniteSets, TLC

VARIABLES page, uploaded_file, user_input, plot_type, x_sel, y_sel,
          button, data, screen, sent

vars == <<page, uploaded_file, user_input, plot_type, x_sel, y_sel,
          button, data, screen, sent>>

(***************************************************************************)
(* Bounds of the model.                                                    *)
(***************************************************************************)
MaxCols == 2
MaxPages == 2
LongPageLen == 600

(***************************************************************************)
(* Generic helpers.                                                        *)
(***************************************************************************)
Last(s) == s[Len(s)]

RECURSIVE SumSeq(_)
SumSeq(s) == IF s = <<>> THEN 0 ELSE Head(s) + SumSeq(Tail(s))

Range(s) == {s[i] : i \in 1..Len(s)}

(***************************************************************************)
(* str.split(".") and str.lower() over sequences of characters.            *)
(***************************************************************************)
RECURSIVE SplitAcc(_, _, _)
SplitAcc(s, sep, cur) ==
    IF s = <<>> THEN <<cur>>
    ELSE IF Head(s) = sep THEN <<cur>> \o SplitAcc(Tail(s), sep, <<>>)
    ELSE SplitAcc(Tail(s), sep, Append(cur, Head(s)))

Split(s, sep) == SplitAcc(s, sep, <<>>)

LowerChar(c) ==
    CASE c = "A" -> "a" [] c = "B" -> "b" [] c = "C" -> "c" [] c = "D" -> "d"
      [] c = "F" -> "f" [] c = "L" -> "l" [] c = "P" -> "p" [] c = "S" -> "s"
      [] c = "T" -> "t" [] c = "V" -> "v" [] c = "X" -> "x"
      [] OTHER -> c

Lower(s) == [i \in 1..Len(s) |-> LowerChar(s[i])]

FileExtensionCaseSensitive(name) == Last(Split(name, "."))

\* file.name.split(".")[-1].lower()
FileExtension(name) == Lower(Last(Split(name, ".")))

EXT_CSV == <<"c", "s", "v">>
EXT_XLS == <<"x", "l", "s">>
EXT_XLSX == <<"x", "l", "s", "x">>
EXT_PDF == <<"p", "d", "f">>

(***************************************************************************)
(* Uploaded files.  The content records what each parser makes of the      *)
(* bytes: fmt is the format the bytes really are in.                        *)
(***************************************************************************)
StrLabel(s) == [t |-> "str", v |-> s]
IntLabel(s) == [t |-> "int", v |-> s]

\* Python truthiness of a column label or None: None, "" and 0 are falsy.
Truthy(label) == /\ label.t # "none"
                 /\ ~(label.t = "str" /\ label.v = "")
                 /\ ~(label.t = "int" /\ label.v = "0")

\* Non-numeric cells are kept as integer codes of their values.
ColumnPool ==
    << [label |-> StrLabel("a"), dtype |-> "int64", values |-> <<3, 1, 2>>],
       [label |-> IntLabel("0"), dtype |-> "int64", values |-> <<2, 4, 6>>],
       [label |-> StrLabel("c"), dtype |-> "float64", values |-> <<5, 5, 5>>],
       [label |-> StrLabel("s"), dtype |-> "object", values |-> <<7, 8, 7>>] >>

RECURSIVE SubSeqOf(_, _, _)
SubSeqOf(s, picked, i) ==
    IF i > Len(s) THEN <<>>
    ELSE (IF i \in picked THEN <<s[i]>> ELSE <<>>) \o SubSeqOf(s, picked, i + 1)

\* The tables of at most MaxCols columns of the pool, in the pool's order.
Tables ==
    {SubSeqOf(ColumnPool, picked, 1) :
        picked \in {p \in SUBSET (1..Len(ColumnPool)) : Cardinality(p) <= MaxCols}}

LongPage == [i \in 1..LongPageLen |-> "x"]

PagePool == {<<>>, <<"a", "\n", "b">>, LongPage}

Pdfs == UNION {[1..n -> PagePool] : n \in 0..MaxPages}

Content(fmt, table, pages) == [fmt |-> fmt, table |-> table, pages |-> pages]

File(name, content) == [present |-> TRUE, name |-> name, content |-> content]

NoFile == [present |-> FALSE, name |-> <<>>, content |-> Content("none", <<>>, <<>>)]

CSV_NAME == <<"a", ".", "c", "s", "v">>
XLSX_NAME == <<"a", ".", "x", "l", "s", "x">>
PDF_NAME == <<"a", ".", "p", "d", "f">>

\* Other spellings of the supported extensions, and unsupported ones.
CsvNames == { CSV_NAME, <<"a", ".", "C", "S", "V">>, <<"c", "s", "v">> }
ExcelNames == { XLSX_NAME, <<"a", ".", "x", "l", "s">> }
PdfNames == { PDF_NAME, <<"a", ".", "b", ".", "P", "d", "f">> }
OtherNames == { <<"a", ".", "t", "x", "t">>, <<"a", ".">>,
                <<"a", ".", "p", "d", "f", ".", "x">> }

Names == CsvNames \cup ExcelNames \cup PdfNames \cup OtherNames

SampleTable == <<ColumnPool[1]>>
SamplePdf == <<<<"a", "\n", "b">>>>

\* Every table and document under a plain name, and under every name a
\* sample of each format and an empty file.  An empty sheet of a workbook
\* parses to a table without columns, and numeric header cells of a
\* workbook stay numbers.
Files ==
    {File(XLSX_NAME, Content("excel", t, <<>>)) : t \in Tables}
    \cup {File(PDF_NAME, Content("pdf", <<>>, p)) : p \in Pdfs}
    \cup {File(n, c) : n \in Names,
                       c \in { Content("csv", SampleTable, <<>>),
                               Content("excel", SampleTable, <<>>),
                               Content("pdf", <<>>, SamplePdf),
                               Content("empty", <<>>, <<>>) }}

(***************************************************************************)
(* Values of the global `data` and results of calls that may raise.        *)
(***************************************************************************)
DataFrame(t) == [kind |-> "DataFrame", table |-> t, text |-> <<>>]
Str(s) == [kind |-> "str", table |-> <<>>, text |-> s]
None == [kind |-> "None", table |-> <<>>, text |-> <<>>]
Unbound == [kind |-> "unbound", table |-> <<>>, text |-> <<>>]

\* An element the run put on the page.
El(kind, body) == [kind |-> kind, body |-> body]

Returned(value, out) == [raised |-> FALSE, exc |-> "", value |-> value, out |-> out]
Raised(exc, out) == [raised |-> TRUE, exc |-> exc, value |-> Unbound, out |-> out]

(***************************************************************************)
(* The parsers of pandas and PyPDF2.                                       *)
(***************************************************************************)
read_csv(content) ==
    CASE content.fmt = "csv" -> Returned(DataFrame(content.table), <<>>)
      [] content.fmt = "empty" -> Raised("EmptyDataError", <<>>)
      [] OTHER -> Raised("UnicodeDecodeError", <<>>)

read_excel(content) ==
    CASE content.fmt = "excel" -> Returned(DataFrame(content.table), <<>>)
      [] OTHER -> Raised("ValueError", <<>>)

PdfReader(content) ==
    CASE content.fmt = "pdf" -> Returned(content.pages, <<>>)
      [] content.fmt = "empty" -> Raised("EmptyFileError", <<>>)
      [] OTHER -> Raised("PdfReadError", <<>>)

RECURSIVE read_pdf_loop_skip_empty(_, _)
read_pdf_loop_skip_empty(pages, text) ==
    IF pages = <<>> THEN text
    ELSE read_pdf_loop_skip_empty(Tail(pages),
            IF Head(pages) = <<>> THEN text ELSE text \o Head(pages) \o <<"\n">>)

\* for page in pdf_reader.pages: text += page.extract_text() + "\n"
RECURSIVE read_pdf_loop(_, _)
read_pdf_loop(pages, text) ==
    IF pages = <<>> THEN text
    ELSE read_pdf_loop(Tail(pages), text \o Head(pages) \o <<"\n">>)

read_pdf_skipping_empty(content) ==
    LET pdf_reader == PdfReader(content)
    IN  IF pdf_reader.raised THEN Raised(pdf_reader.exc, <<>>)
        ELSE Returned(Str(read_pdf_loop_skip_empty(pdf_reader.value, <<>>)), <<>>)

read_pdf(content) ==
    LET pdf_reader == PdfReader(content)
    IN  IF pdf_reader.raised THEN Raised(pdf_reader.exc, <<>>)
        ELSE Returned(Str(read_pdf_loop(pdf_reader.value, <<>>)), <<>>)

UnsupportedMessage == "Unsupported file format. Please upload a CSV, XLSX, or PDF file."

load_data(file) ==
    LET file_extension == FileExtension(file.name)
    IN  CASE file_extension = EXT_CSV -> read_csv(file.content)
          [] file_extension \in {EXT_XLS, EXT_XLSX} -> read_excel(file.content)
          [] file_extension = EXT_PDF -> read_pdf(file.content)
          [] OTHER -> Returned(None, <<El("error", UnsupportedMessage)>>)

(***************************************************************************)
(* Series.describe(), DataFrame.describe() and Series.corr().  Fractions   *)
(* are pairs <<numerator, denominator>>; NaN is <<0, 0>>.                  *)
(***************************************************************************)
NaN == <<0, 0>>

RECURSIVE Insert(_, _)
Insert(x, sorted) ==
    IF sorted = <<>> THEN <<x>>
    ELSE IF x <= Head(sorted) THEN <<x>> \o sorted
    ELSE <<Head(sorted)>> \o Insert(x, Tail(sorted))

RECURSIVE SortValues(_)
SortValues(s) == IF s = <<>> THEN <<>> ELSE Insert(Head(s), SortValues(Tail(s)))

SumProd(xs, ys) == SumSeq([i \in 1..Len(xs) |-> xs[i] * ys[i]])

\* n * sum(x^2) - sum(x)^2: n^2 times the population variance.
ScaledVar(xs) == Len(xs) * SumProd(xs, xs) - SumSeq(xs) * SumSeq(xs)

\* The k-th quartile by linear interpolation, in quarters.
Quartile(sorted, k) ==
    LET pos4 == (Len(sorted) - 1) * k
        i == pos4 \div 4
        f == pos4 % 4
    IN  <<sorted[i + 1] * (4 - f) + (IF f > 0 THEN sorted[i + 2] * f ELSE 0), 4>>

SeriesDescribe(col) ==
    LET xs == col.values
        n == Len(xs)
        sorted == SortValues(xs)
    IN  IF col.dtype \in {"float64", "int64"}
        THEN [label |-> col.label, count |-> n,
              mean |-> IF n = 0 THEN NaN ELSE <<SumSeq(xs), n>>,
              var |-> IF n < 2 THEN NaN ELSE <<ScaledVar(xs), n * (n - 1)>>,
              min |-> IF n = 0 THEN NaN ELSE <<sorted[1], 1>>,
              q1 |-> IF n = 0 THEN NaN ELSE Quartile(sorted, 1),
              q2 |-> IF n = 0 THEN NaN ELSE Quartile(sorted, 2),
              q3 |-> IF n = 0 THEN NaN ELSE Quartile(sorted, 3),
              max |-> IF n = 0 THEN NaN ELSE <<sorted[n], 1>>]
        ELSE [label |-> col.label, count |-> n,
              mean |-> NaN, var |-> NaN, min |-> NaN,
              q1 |-> NaN, q2 |-> <<Cardinality(Range(xs)), 1>>, q3 |-> NaN,
              max |-> NaN]

IsNumeric(col) == col.dtype \in {"float64", "int64"}

\* df.select_dtypes(include=['float64', 'int64']).columns
NumericCols(table) ==
    LET cols == SelectSeq(table, IsNumeric)
    IN  [i \in 1..Len(cols) |-> cols[i].label]

\* DataFrame.describe(): the numeric columns when there is one, otherwise
\* every column; a frame without columns raises ValueError.
DescribeFrame(table) ==
    LET numeric == SelectSeq(table, IsNumeric)
        described == IF numeric # <<>> THEN numeric ELSE table
    IN  IF table = <<>> THEN Raised("ValueError", <<>>)
        ELSE Returned([i \in 1..Len(described) |-> SeriesDescribe(described[i])], <<>>)

ColumnOf(table, label) == CHOOSE c \in Range(table) : c.label = label

\* f"{correlation:.2f}": the coefficient rounded to hundredths; a NaN
\* coefficient (a column without variance) is formatted as "nan".
FormatCorrelation(xs, ys) ==
    LET n == Len(xs)
        cov == n * SumProd(xs, ys) - SumSeq(xs) * SumSeq(ys)
        d == ScaledVar(xs) * ScaledVar(ys)
        mag == CHOOSE k \in 0..100 :
                  /\ (k = 0 \/ (2 * k - 1) * (2 * k - 1) * d <= 40000 * cov * cov)
                  /\ (k = 100 \/ (2 * k + 1) * (2 * k + 1) * d > 40000 * cov * cov)
    IN  IF d = 0 THEN [text |-> "nan", hundredths |-> 0]
        ELSE [text |-> "number", hundredths |-> IF cov < 0 THEN -mag ELSE mag]

(***************************************************************************)
(* create_plot.  A selectbox keeps its value while its options stay the    *)
(* same and starts at its first option otherwise.                          *)
(***************************************************************************)
PlotTypes == {"Scatter Plot", "Line Chart", "Bar Chart", "Histogram"}
DefaultPlotType == "Scatter Plot"

NoneLabel == [t |-> "none", v |-> ""]
NoSelection == [opts |-> <<>>, val |-> NoneLabel]
Selection(opts, val) == [opts |-> opts, val |-> val]

selectbox(sel, options) == IF sel.opts = options THEN sel.val ELSE options[1]

Figure(kind, x, y, title) == [kind |-> kind, x |-> x, y |-> y, title |-> title]

MakeFigure(pt, x_col, y_col) ==
    CASE pt = "Scatter Plot" -> Figure("scatter", x_col, y_col, <<y_col.v, " vs ", x_col.v>>)
      [] pt = "Line Chart" -> Figure("line", x_col, y_col, <<y_col.v, " vs ", x_col.v>>)
      [] pt = "Bar Chart" -> Figure("bar", x_col, y_col, <<y_col.v, " by ", x_col.v>>)
      [] pt = "Histogram" -> Figure("histogram", x_col, NoneLabel, <<"Histogram of ", x_col.v>>)

BriefInsights(table, pt, x_col, y_col) ==
    (IF pt # "Histogram" /\ Truthy(y_col)
     THEN <<El("correlation",
               [x |-> x_col, y |-> y_col,
                value |-> FormatCorrelation(ColumnOf(table, x_col).values,
                                            ColumnOf(table, y_col).values)])>>
     ELSE <<>>)
    \o <<El("summary", SeriesDescribe(ColumnOf(table, x_col)))>>
    \o (IF Truthy(y_col)
        THEN <<El("summary", SeriesDescribe(ColumnOf(table, y_col)))>>
        ELSE <<>>)

EnoughNumericColsOffByOne(numeric_cols) == Len(numeric_cols) >= 1

\* len(numeric_cols) >= 2
EnoughNumericCols(numeric_cols) == Len(numeric_cols) >= 2

PlotResult(out, pt, xs, ys) == [out |-> out, pt |-> pt, xs |-> xs, ys |-> ys]

create_plot(df, pt, xs, ys) ==
    IF df.kind = "DataFrame"
    THEN LET numeric_cols == NumericCols(df.table)
         IN  IF EnoughNumericCols(numeric_cols)
             THEN LET x_col == selectbox(xs, numeric_cols)
                      y_col == IF pt # "Histogram" THEN selectbox(ys, numeric_cols)
                               ELSE NoneLabel
                  IN  PlotResult(
                        <<El("radio", pt), El("selectbox_x", x_col)>>
                        \o (IF pt # "Histogram" THEN <<El("selectbox_y", y_col)>> ELSE <<>>)
                        \o <<El("plotly_chart", MakeFigure(pt, x_col, y_col)),
                             El("insights", BriefInsights(df.table, pt, x_col, y_col))>>,
                        pt, Selection(numeric_cols, x_col),
                        IF pt # "Histogram" THEN Selection(numeric_cols, y_col)
                        ELSE NoSelection)
             ELSE PlotResult(
                    <<El("warning", "The dataframe doesn't have enough numeric columns for plotting.")>>,
                    DefaultPlotType, NoSelection, NoSelection)
    ELSE PlotResult(
           <<El("warning", "Please upload a valid CSV or XLSX file for visualization.")>>,
           DefaultPlotType, NoSelection, NoSelection)

(***************************************************************************)
(* The Submit handler: the context and the request to the model.           *)
(***************************************************************************)
ContextCap == 1000

Min(a, b) == IF a < b THEN a ELSE b

Context(prefix, body, suffix) == [prefix |-> prefix, body |-> body, suffix |-> suffix]

EmptyContext == Context("", <<>>, "")

PdfContextBodyUncapped(text) == text

\* data[:1000]
PdfContextBody(text) == SubSeq(text, 1, Min(Len(text), ContextCap))

\* The value of context after the handler's if-chain; describe() may raise.
BuildContext(file, d) ==
    IF file.present /\ d.kind = "DataFrame"
    THEN LET desc == DescribeFrame(d.table)
         IN  IF desc.raised THEN desc
             ELSE Returned(Context("Data summary:\n", desc.value, "\n\n"), <<>>)
    ELSE IF file.present /\ d.kind = "str"
    THEN Returned(Context("PDF content summary:\n", PdfContextBody(d.text), "...\n\n"), <<>>)
    ELSE Returned(EmptyContext, <<>>)

SystemPrompt == "You are a helpful assistant. Analyze the provided data and answer questions."

Request(context, question) ==
    [system |-> SystemPrompt,
     user |-> [context |-> context, sep |-> "User question: ", question |-> question],
     model |-> "gpt-4o"]

\* What the service does with a request: it fails, or it answers with one
\* or more choices.
Outcomes ==
    { [ok |-> FALSE, choices |-> <<>>],
      [ok |-> TRUE, choices |-> <<"answer 1">>],
      [ok |-> TRUE, choices |-> <<"answer 2", "answer 1">>] }

NoOutcome == [ok |-> FALSE, choices |-> <<>>]

Handled(raised, exc, out, requests) ==
    [raised |-> raised, exc |-> exc, out |-> out, sent |-> requests]

Call(request, outcome) == [request |-> request, outcome |-> outcome]

CallsWithRetry(request, outcome) ==
    IF outcome.ok THEN <<Call(request, outcome)>>
    ELSE <<Call(request, outcome), Call(request, outcome)>>

\* The calls of client.complete one Submit makes, each with its outcome.
Calls(request, outcome) == <<Call(request, outcome)>>

\* client.complete(...) followed by the two st.write calls.
SubmitHandler(file, d, question, outcome) ==
    LET context == BuildContext(file, d)
    IN  IF context.raised THEN Handled(TRUE, context.exc, <<>>, <<>>)
        ELSE LET requests == Calls(Request(context.value, question), outcome)
             IN  IF ~outcome.ok
                 THEN Handled(TRUE, "HttpResponseError", <<>>, requests)
                 ELSE Handled(FALSE, "",
                              <<El("write", "Response:"),
                                El("response", outcome.choices[1])>>,
                              requests)

(***************************************************************************)
(* One run of the script.                                                  *)
(***************************************************************************)
Pages == {"Home", "About", "Guides", "Support"}

DefaultQuestion == "What insights can you provide from the uploaded data?"
Questions == {DefaultQuestion, "What is the mean of a?"}

RunResult(out, d, requests, q, pt, xs, ys) ==
    [screen |-> out, data |-> d, sent |-> requests, user_input |-> q,
     plot_type |-> pt, x_sel |-> xs, y_sel |-> ys]

Sidebar(pg) == <<El("sidebar_radio", pg)>>

Footer == <<El("markdown", "---"), El("markdown", "Built with ...")>>

Exception(exc) == <<El("exception", exc)>>

\* data.head()
HeadRows(table) ==
    [i \in 1..Len(table) |->
        [table[i] EXCEPT !.values = SubSeq(@, 1, Min(Len(@), 5))]]

\* The "Data Preview" part of the first tab.
DataPreview(d) ==
    IF d.kind = "DataFrame"
    THEN LET desc == DescribeFrame(d.table)
             shown == <<El("subheader", "Data Preview"),
                        El("preview", HeadRows(d.table)),
                        El("write", "Number of rows"),
                        El("write", "Number of columns"),
                        El("write", "Column types:"),
                        El("dtypes", [i \in 1..Len(d.table) |-> d.table[i].dtype]),
                        El("write", "Summary statistics:")>>
         IN  IF desc.raised THEN Raised(desc.exc, shown)
             ELSE Returned(d, Append(shown, El("describe", desc.value)))
    ELSE Returned(d, <<>>)

HomePage(file, q, pt, xs, ys, btn, outcome) ==
    LET top == Sidebar("Home") \o <<El("title", "Home"), El("file_uploader", file.present)>>
    IN  IF ~file.present
        THEN RunResult(top \o Footer, Unbound, <<>>, DefaultQuestion,
                       DefaultPlotType, NoSelection, NoSelection)
        ELSE
        LET loaded == load_data(file)
        IN  IF loaded.raised
            THEN RunResult(top \o loaded.out \o Exception(loaded.exc), Unbound, <<>>,
                           q, pt, xs, ys)
            ELSE
            LET d == loaded.value
                preview == DataPreview(d)
            IN  IF preview.raised
                THEN RunResult(top \o loaded.out \o preview.out \o Exception(preview.exc),
                               d, <<>>, q, pt, xs, ys)
                ELSE
                LET chat == top \o loaded.out \o preview.out
                            \o <<El("subheader", "Ask a Question"),
                                 El("text_input", q), El("button", btn)>>
                    submit == IF btn THEN SubmitHandler(file, d, q, outcome)
                              ELSE Handled(FALSE, "", <<>>, <<>>)
                IN  IF submit.raised
                    THEN RunResult(chat \o submit.out \o Exception(submit.exc),
                                   d, submit.sent, q, pt, xs, ys)
                    ELSE
                    LET plot == create_plot(IF d.kind = "DataFrame" THEN d ELSE None,
                                            pt, xs, ys)
                    IN  RunResult(chat \o submit.out
                                  \o <<El("subheader", "Data Visualization")>>
                                  \o plot.out \o Footer,
                                  d, submit.sent, q, plot.pt, plot.xs, plot.ys)

StaticPage(pg) ==
    RunResult(Sidebar(pg) \o <<El("title", pg), El("markdown", pg)>>,
              Unbound, <<>>, DefaultQuestion, DefaultPlotType, NoSelection, NoSelection)

RunScript(pg, file, q, pt, xs, ys, btn, outcome) ==
    IF pg = "Home" THEN HomePage(file, q, pt, xs, ys, btn, outcome)
    ELSE StaticPage(pg)

Shows(out, kind) == \E i \in 1..Len(out) : out[i].kind = kind

(***************************************************************************)
(* The session.                                                            *)
(***************************************************************************)
\* The effect of one interaction: the widget values it leaves and the run.
Rerun(pg, file, q, pt, xs, ys, btn, outcome) ==
    \E r \in {RunScript(pg, file, q, pt, xs, ys, btn, outcome)} :
        /\ page' = pg
        /\ uploaded_file' = IF pg = "Home" THEN file ELSE NoFile
        /\ user_input' = r.user_input
        /\ plot_type' = r.plot_type
        /\ x_sel' = r.x_sel
        /\ y_sel' = r.y_sel
        /\ button' = btn
        /\ data' = r.data
        /\ screen' = r.screen
        /\ sent' = r.sent

Init ==
    /\ page = "Home"
    /\ uploaded_file = NoFile
    /\ user_input = DefaultQuestion
    /\ plot_type = DefaultPlotType
    /\ x_sel = NoSelection
    /\ y_sel = NoSelection
    /\ button = FALSE
    /\ data = Unbound
    /\ screen = RunScript("Home", NoFile, DefaultQuestion, DefaultPlotType,
                          NoSelection, NoSelection, FALSE, NoOutcome).screen
    /\ sent = <<>>

HasSuffix(s, suffix) ==
    /\ Len(suffix) <= Len(s)
    /\ SubSeq(s, Len(s) - Len(suffix) + 1, Len(s)) = suffix

UploaderTypes == {EXT_CSV, EXT_XLSX, EXT_PDF}

\* st.file_uploader(..., type=["csv", "xlsx", "pdf"])
AcceptedByUploader(name) ==
    \E t \in UploaderTypes : HasSuffix(Lower(name), <<".">> \o t)

Navigate(pg) ==
    /\ pg # page
    /\ Rerun(pg, uploaded_file, user_input, plot_type, x_sel, y_sel, FALSE, NoOutcome)

\* The user picks a file in the browser, which offers the listed types only.
Upload(f) ==
    /\ Shows(screen, "file_uploader")
    /\ AcceptedByUploader(f.name)
    /\ Rerun(page, f, user_input, plot_type, x_sel, y_sel, FALSE, NoOutcome)

\* A file sent to the upload endpoint without the browser's filter.
UploadUnfiltered(f) ==
    /\ Shows(screen, "file_uploader")
    /\ ~AcceptedByUploader(f.name)
    /\ Rerun(page, f, user_input, plot_type, x_sel, y_sel, FALSE, NoOutcome)

RemoveFile ==
    /\ Shows(screen, "file_uploader")
    /\ uploaded_file.present
    /\ Rerun(page, NoFile, user_input, plot_type, x_sel, y_sel, FALSE, NoOutcome)

EditQuestion(q) ==
    /\ Shows(screen, "text_input")
    /\ q # user_input
    /\ Rerun(page, uploaded_file, q, plot_type, x_sel, y_sel, FALSE, NoOutcome)

SelectPlotType(pt) ==
    /\ Shows(screen, "radio")
    /\ pt # plot_type
    /\ Rerun(page, uploaded_file, user_input, pt, x_sel, y_sel, FALSE, NoOutcome)

SelectX(label) ==
    /\ Shows(screen, "selectbox_x")
    /\ label # x_sel.val
    /\ Rerun(page, uploaded_file, user_input, plot_type,
             Selection(x_sel.opts, label), y_sel, FALSE, NoOutcome)

SelectY(label) ==
    /\ Shows(screen, "selectbox_y")
    /\ label # y_sel.val
    /\ Rerun(page, uploaded_file, user_input, plot_type,
             x_sel, Selection(y_sel.opts, label), FALSE, NoOutcome)

Submit(outcome) ==
    /\ Shows(screen, "button")
    /\ Rerun(page, uploaded_file, user_input, plot_type, x_sel, y_sel, TRUE, outcome)

Next ==
    \/ \E pg \in Pages : Navigate(pg)
    \/ \E f \in Files : Upload(f)
    \/ \E f \in Files : UploadUnfiltered(f)
    \/ RemoveFile
    \/ \E q \in Questions : EditQuestion(q)
    \/ \E pt \in PlotTypes : SelectPlotType(pt)
    \/ \E label \in Range(x_sel.opts) : SelectX(label)
    \/ \E label \in Range(y_sel.opts) : SelectY(label)
    \/ \E outcome \in Outcomes : Submit(outcome)

Spec == Init /\ [][Next]_vars

(***************************************************************************)
(* Vocabulary of the properties.                                           *)
(***************************************************************************)
SupportedExts == {EXT_CSV, EXT_XLS, EXT_XLSX, EXT_PDF}

\* e is the lower-cased text after the last dot of name (all of name when
\* it has no dot).
HasExtension(name, e) ==
    \E k \in 0..Len(name) :
        /\ k = 0 \/ name[k] = "."
        /\ \A j \in (k + 1)..Len(name) : name[j] # "."
        /\ Lower(SubSeq(name, k + 1, Len(name))) = e

ExtensionIn(name, exts) == \E e \in exts : HasExtension(name, e)

ShowsUnsupportedError ==
    \E i \in 1..Len(screen) :
        screen[i].kind = "error" /\ screen[i].body = UnsupportedMessage

NumericCount(table) ==
    Cardinality({i \in 1..Len(table) : table[i].dtype \in {"int64", "float64"}})

RECURSIVE JoinPages(_)
JoinPages(pages) ==
    IF pages = <<>> THEN <<>>
    ELSE IF Len(pages) = 1 THEN pages[1]
    ELSE pages[1] \o <<"\n">> \o JoinPages(Tail(pages))

ZeroVariance(values) == \A i, j \in 1..Len(values) : values[i] = values[j]

TheInsights == screen[CHOOSE i \in 1..Len(screen) : screen[i].kind = "insights"].body

CountKind(out, kind) == Cardinality({i \in 1..Len(out) : out[i].kind = kind})

(***************************************************************************)
(* C1.  load_data dispatches on the lower-cased text after the last dot of *)
(* the file name: a well-formed csv, xls or xlsx file gives the table of   *)
(* the file, a well-formed pdf gives a text, and any other extension shows *)
(* the unsupported-format error and gives None; the error is shown in no   *)
(* other case.                                                             *)
(***************************************************************************)
LoadDataDispatchesOnExtension ==
    (page = "Home" /\ uploaded_file.present) =>
        LET n == uploaded_file.name
            c == uploaded_file.content
        IN  /\ (ExtensionIn(n, {EXT_CSV}) /\ c.fmt = "csv") => data = DataFrame(c.table)
            /\ (ExtensionIn(n, {EXT_XLS, EXT_XLSX}) /\ c.fmt = "excel")
                  => data = DataFrame(c.table)
            /\ (ExtensionIn(n, {EXT_PDF}) /\ c.fmt = "pdf") => data.kind = "str"
            /\ ~ExtensionIn(n, SupportedExts) => (data = None /\ ShowsUnsupportedError)
            /\ ShowsUnsupportedError => ~ExtensionIn(n, SupportedExts)

UnsupportedExtensionLoaded ==
    /\ page = "Home"
    /\ uploaded_file.present
    /\ ~ExtensionIn(uploaded_file.name, SupportedExts)
    /\ data = None
    /\ ShowsUnsupportedError

(***************************************************************************)
(* C2.  When the uploaded file's extension is none of csv, xls, xlsx, pdf, *)
(* the error is shown and nothing else is processed: no preview, no chart  *)
(* and no request to the AI service, whatever the user does next.          *)
(***************************************************************************)
UnsupportedFileStopsProcessing ==
    (page = "Home" /\ uploaded_file.present
       /\ ~ExtensionIn(uploaded_file.name, SupportedExts)) =>
        /\ ShowsUnsupportedError
        /\ ~Shows(screen, "preview")
        /\ ~Shows(screen, "plotly_chart")
        /\ sent = <<>>

(***************************************************************************)
(* C3.  A table with fewer than two numeric columns gets no chart, no      *)
(* chart-kind or axis selection and no insights, and a run that reaches    *)
(* the chart builder shows the not-enough-numeric-columns warning.         *)
(***************************************************************************)
InsufficientNumericColumns ==
    (page = "Home" /\ data.kind = "DataFrame" /\ NumericCount(data.table) <= 1) =>
        /\ ~Shows(screen, "plotly_chart")
        /\ ~Shows(screen, "radio")
        /\ ~Shows(screen, "selectbox_x")
        /\ ~Shows(screen, "selectbox_y")
        /\ ~Shows(screen, "insights")
        /\ ~Shows(screen, "exception") =>
              \E i \in 1..Len(screen) :
                 /\ screen[i].kind = "warning"
                 /\ screen[i].body = "The dataframe doesn't have enough numeric columns for plotting."

OneNumericColumnWarned ==
    /\ page = "Home"
    /\ data.kind = "DataFrame"
    /\ NumericCount(data.table) = 1
    /\ Len(data.table) = 2
    /\ Shows(screen, "warning")

(***************************************************************************)
(* C4.  As claimed: the text of an N-page PDF is its N page texts joined   *)
(* by newline separators.                                                  *)
(***************************************************************************)
PdfTextIsPagesJoined ==
    (page = "Home" /\ data.kind = "str") =>
        data.text = JoinPages(uploaded_file.content.pages)

(***************************************************************************)
(* C4, amended.  The text of an N-page PDF is its N page texts in document *)
(* order, each followed by a newline: the joined pages plus one trailing   *)
(* newline, and the empty string for a PDF without pages.  An empty page   *)
(* contributes its newline alone.                                          *)
(***************************************************************************)
PdfTextIsPagesTerminated ==
    (page = "Home" /\ data.kind = "str") =>
        LET pages == uploaded_file.content.pages
        IN  /\ data.text = IF pages = <<>> THEN <<>>
                           ELSE JoinPages(pages) \o <<"\n">>
            /\ Len(data.text) = SumSeq([i \in 1..Len(pages) |-> Len(pages[i])]) + Len(pages)

EmptyPageExtracted ==
    /\ page = "Home"
    /\ data.kind = "str"
    /\ Len(uploaded_file.content.pages) = 2
    /\ uploaded_file.content.pages[1] = <<>>
    /\ uploaded_file.content.pages[2] # <<>>

(***************************************************************************)
(* C5.  The context of every request: for a text it is the first           *)
(* min(length, 1000) characters of the text followed by the "..." marker;  *)
(* for a table it is the statistics of every described column (the numeric *)
(* columns when there is one, else all columns) without a marker; and      *)
(* empty when nothing was loaded.                                          *)
(***************************************************************************)
ContextBoundedForTextOnly ==
    \A k \in 1..Len(sent) :
        LET ctx == sent[k].request.user.context
        IN  /\ data.kind = "str" =>
                 /\ ctx.prefix = "PDF content summary:\n"
                 /\ Len(ctx.body) = Min(Len(data.text), 1000)
                 /\ \A i \in 1..Len(ctx.body) : ctx.body[i] = data.text[i]
                 /\ ctx.suffix = "...\n\n"
            /\ data.kind = "DataFrame" =>
                 /\ ctx.prefix = "Data summary:\n"
                 /\ ctx.suffix = "\n\n"
                 /\ Len(ctx.body) = IF NumericCount(data.table) > 0
                                    THEN NumericCount(data.table)
                                    ELSE Len(data.table)
                 /\ \A i \in 1..Len(data.table) :
                       (NumericCount(data.table) = 0
                          \/ data.table[i].dtype \in {"int64", "float64"})
                       => \E j \in 1..Len(ctx.body) :
                             /\ ctx.body[j].label = data.table[i].label
                             /\ ctx.body[j].count = Len(data.table[i].values)
            /\ data.kind = "None" => ctx = EmptyContext

LongTextSubmitted ==
    /\ button
    /\ sent # <<>>
    /\ data.kind = "str"
    /\ Len(data.text) > 1000

(***************************************************************************)
(* C6.  As claimed: on the Home page a question can be submitted while no  *)
(* file is uploaded (the Submit button is there), and the request then     *)
(* carries the empty context.                                              *)
(***************************************************************************)
SubmitPossibleWithoutFile ==
    (page = "Home" /\ ~uploaded_file.present) =>
        /\ Shows(screen, "button")
        /\ \A k \in 1..Len(sent) : sent[k].request.user.context = EmptyContext

(***************************************************************************)
(* C7.  As claimed: no failure is left unhandled; every failure is caught  *)
(* and rendered by the application as a message of its own.                *)
(***************************************************************************)
NoUnhandledFailure == ~Shows(screen, "exception")

(***************************************************************************)
(* C8.  A run triggered by Submit calls the chat-completion service        *)
(* exactly once, whether the call succeeds or fails; a successful call     *)
(* displays its first choice and a failed one displays no response; a run  *)
(* triggered by anything else calls the service not at all.                *)
(***************************************************************************)
OneRequestPerSubmit ==
    /\ ~button => sent = <<>>
    /\ button =>
         /\ Len(sent) = 1
         /\ sent[1].request.user.question = user_input
         /\ sent[1].outcome.ok =>
               /\ CountKind(screen, "response") = 1
               /\ \E i \in 1..Len(screen) :
                     /\ screen[i].kind = "response"
                     /\ screen[i].body = sent[1].outcome.choices[1]
         /\ ~sent[1].outcome.ok => ~Shows(screen, "response")

FailedSubmitSentOnce ==
    /\ button
    /\ Len(sent) = 1
    /\ ~sent[1].outcome.ok

(***************************************************************************)
(* C9.  As claimed: a correlation over a column without variance is        *)
(* reported as "undefined", next to the descriptive statistics.            *)
(***************************************************************************)
ZeroVarianceReportedUndefined ==
    (page = "Home" /\ Shows(screen, "insights")) =>
        \A j \in 1..Len(TheInsights) :
            TheInsights[j].kind = "correlation" =>
                LET e == TheInsights[j].body
                IN  (ZeroVariance(ColumnOf(data.table, e.x).values)
                       \/ ZeroVariance(ColumnOf(data.table, e.y).values))
                    => /\ e.value.text = "undefined"
                       /\ Shows(TheInsights, "summary")

(***************************************************************************)
(* C10.  As claimed: whenever a chart is shown, a y-axis selection is      *)
(* asked if and only if the kind is not histogram; a histogram comes with  *)
(* no correlation and the statistics of x alone, every other kind with a   *)
(* correlation and the statistics of both x and y.                         *)
(***************************************************************************)
YAxisIffNotHistogram ==
    \A i \in 1..Len(screen) :
        screen[i].kind = "plotly_chart" =>
            LET hist == screen[i].body.kind = "histogram"
            IN  /\ Shows(screen, "selectbox_y") <=> ~hist
                /\ Shows(TheInsights, "correlation") <=> ~hist
                /\ CountKind(TheInsights, "summary") = IF hist THEN 1 ELSE 2

====
